---------------------------- MODULE Spec2Model ----------------------------
(***************************************************************************)
(* A model of DatatoTable: the DataOperator of datatotable/data.py (the    *)
(* record normalizer, fill, num_rows, rows and the column builder) and the *)
(* DBInterface of datatotable/database.py (the schema mapper on top of     *)
(* SQLAlchemy's MetaData, Table, mapper and clear_mappers).                *)
(***************************************************************************)
EXTENDS Integers, Sequences, FiniteSets, TLC

(***************************************************************************)
(* Bounds of the model.                                                    *)
(***************************************************************************)
\* longest column of a column-oriented input
MaxLen == 2
\* longest column given to get_type
MaxInfer == 3
\* longest list given to set_type
MaxFloats == 3
\* most rows of a row-oriented input
MaxRows == 2

\* column names and cell values the inputs are drawn from
ColNames == {"a", "b"}
Values == {"None", "1", "hi"}

VARIABLES
    raw,        \* the argument of DataOperator(data)
    phase,      \* "new" before __init__, "built" after it, "failed" if it raised
    data,       \* self.data: [keys: the dict's key order, col: name -> list]
    last,       \* the last DataOperator call: [op, key, value, status]
    ret,        \* what that call returned
    metadata,   \* per DBInterface: self.metadata.tables, name -> column types
    db,         \* per DBInterface: the tables of its database, name -> column types
    mappers,    \* the mapper registry of the class DBInterface.Template
    defined,    \* per DBInterface: names mapped successfully and not dropped since
    dlast,      \* the last DBInterface call: [op, inst, name, status, created]
    py_types,   \* the argument of _py_type_to_sql_type
    sql,        \* its outcome: [status, types]
    column,     \* the argument of typecheck.get_type: the kind of each value
    inferred,   \* its outcome: [status, type]
    floats,     \* the floats given to typecheck.set_type(values, int), in tenths
    coerced     \* its outcome: [status, values]

dataVars == <<raw, phase, data, last, ret>>
dbVars == <<metadata, db, mappers, defined, dlast>>
sqlVars == <<py_types, sql>>
tcVars == <<column, inferred, floats, coerced>>
vars == <<raw, phase, data, last, ret, metadata, db, mappers, defined, dlast,
          py_types, sql, column, inferred, floats, coerced>>

(***************************************************************************)
(* Helpers.                                                                *)
(***************************************************************************)
SeqsUpTo(S, n) == UNION {[1..m -> S] : m \in 0..n}

\* the orders in which a dict may hold the keys K
Orders(K) == {s \in [1..Cardinality(K) -> K] : \A i, j \in 1..Cardinality(K) :
                                                  i # j => s[i] # s[j]}

\* the dicts with keys among ColNames and values in S
Dicts(S) == UNION {[K -> S] : K \in SUBSET ColNames}

Copies(v, n) == [i \in 1..n |-> v]

RECURSIVE SetMax(_)
SetMax(S) == LET x == CHOOSE x \in S : TRUE
             IN  IF S = {x} THEN x
                 ELSE LET m == SetMax(S \ {x}) IN IF x > m THEN x ELSE m

EmptyData == [keys |-> <<>>, col |-> <<>>]
NoCall == [op |-> "none", key |-> "", value |-> "", status |-> "ok"]

(***************************************************************************)
(* DataOperator._format_data and __init__.                                 *)
(***************************************************************************)
\* the inputs: a dict of columns (with its key order), a list of row dicts
\* (with the key order of the first row), or something else
ColumnInputs == {[kind |-> "cols", keys |-> o, col |-> c, rows |-> <<>>] :
                    c \in Dicts(SeqsUpTo(Values, MaxLen)),
                    o \in UNION {Orders(K) : K \in SUBSET ColNames}}

RowInputs == {[kind |-> "rows", keys |-> o, col |-> <<>>, rows |-> r] :
                 r \in SeqsUpTo(Dicts(Values), MaxRows),
                 o \in UNION {Orders(K) : K \in SUBSET ColNames}}

OtherInput == [kind |-> "other", keys |-> <<>>, col |-> <<>>, rows |-> <<>>]

WellFormed(x) ==
    CASE x.kind = "cols" -> {x.keys[i] : i \in 1..Len(x.keys)} = DOMAIN x.col
      [] x.kind = "rows" -> IF Len(x.rows) = 0 THEN x.keys = <<>>
                            ELSE {x.keys[i] : i \in 1..Len(x.keys)} = DOMAIN x.rows[1]
      [] OTHER -> TRUE

Inputs == {x \in ColumnInputs \cup RowInputs \cup {OtherInput} : WellFormed(x)}

\* the rows of the list whose keys() equal the keys() of the first
KeptRows(rows) == SelectSeq(rows, LAMBDA r : DOMAIN r = DOMAIN rows[1])

\* a variant that puts each row's values in front of the earlier ones
FormatDataPrepend(x) ==
    CASE x.kind = "cols" -> [status |-> "ok", keys |-> x.keys, col |-> x.col]
      [] x.kind = "rows" ->
           IF Len(x.rows) = 0
           THEN [status |-> "IndexError", keys |-> <<>>, col |-> <<>>]
           ELSE LET kept == KeptRows(x.rows)
                IN  [status |-> "ok", keys |-> x.keys,
                     col |-> [k \in DOMAIN x.rows[1] |->
                                [j \in 1..Len(kept) |-> kept[Len(kept) + 1 - j][k]]]]
      [] OTHER -> [status |-> "ValueError", keys |-> <<>>, col |-> <<>>]

FormatData(x) ==
    CASE x.kind = "cols" -> [status |-> "ok", keys |-> x.keys, col |-> x.col]
      [] x.kind = "rows" ->
           IF Len(x.rows) = 0
           THEN [status |-> "IndexError", keys |-> <<>>, col |-> <<>>]
           ELSE LET kept == KeptRows(x.rows)
                IN  [status |-> "ok", keys |-> x.keys,
                     col |-> [k \in DOMAIN x.rows[1] |->
                                [j \in 1..Len(kept) |-> kept[j][k]]]]
      [] OTHER -> [status |-> "ValueError", keys |-> <<>>, col |-> <<>>]

Construct ==
    /\ phase = "new"
    /\ LET f == FormatData(raw)
       IN  /\ phase' = IF f.status = "ok" THEN "built" ELSE "failed"
           /\ data' = [keys |-> f.keys, col |-> f.col]
           /\ last' = [op |-> "init", key |-> "", value |-> "", status |-> f.status]
    /\ ret' = <<>>
    /\ UNCHANGED <<raw, dbVars, sqlVars, tcVars>>

(***************************************************************************)
(* DataOperator.num_rows and fill.                                         *)
(***************************************************************************)
\* lengths of the columns that are not empty
Lengths(d) == {Len(d.col[k]) : k \in {c \in DOMAIN d.col : d.col[c] # <<>>}}

\* a variant that returns 0 for a dataset without a non-empty column
NumRowsOfDefault(d) ==
    IF Lengths(d) = {} THEN [status |-> "ok", n |-> 0]
    ELSE [status |-> "ok", n |-> SetMax(Lengths(d))]

NumRowsOf(d) ==
    IF Lengths(d) = {} THEN [status |-> "ValueError", n |-> 0]
    ELSE [status |-> "ok", n |-> SetMax(Lengths(d))]

NumRows ==
    /\ phase = "built"
    /\ LET r == NumRowsOf(data)
       IN  /\ last' = [op |-> "num_rows", key |-> "", value |-> "", status |-> r.status]
           /\ ret' = r.n
    /\ UNCHANGED <<raw, phase, data, dbVars, sqlVars, tcVars>>

\* a variant that appends one value to a column that is too short
FillOfOnce(d, key, value) ==
    IF key \notin DOMAIN d.col THEN [status |-> "KeyError", data |-> d]
    ELSE LET column_length == Len(d.col[key])
             r == NumRowsOf(d)
         IN  IF r.status # "ok" THEN [status |-> r.status, data |-> d]
             ELSE [status |-> "ok",
                   data |-> [d EXCEPT !.col[key] =
                               IF r.n > column_length THEN Append(@, value) ELSE @]]

\* a variant whose loop runs once more: range(column_length, data_length + 1)
FillOfInclusive(d, key, value) ==
    IF key \notin DOMAIN d.col THEN [status |-> "KeyError", data |-> d]
    ELSE LET column_length == Len(d.col[key])
             r == NumRowsOf(d)
         IN  IF r.status # "ok" THEN [status |-> r.status, data |-> d]
             ELSE [status |-> "ok",
                   data |-> [d EXCEPT !.col[key] =
                               IF r.n + 1 > column_length
                               THEN @ \o Copies(value, r.n + 1 - column_length)
                               ELSE @]]

FillOf(d, key, value) ==
    IF key \notin DOMAIN d.col THEN [status |-> "KeyError", data |-> d]
    ELSE LET column_length == Len(d.col[key])
             r == NumRowsOf(d)
         IN  IF r.status # "ok" THEN [status |-> r.status, data |-> d]
             ELSE [status |-> "ok",
                   data |-> [d EXCEPT !.col[key] =
                               IF r.n > column_length
                               THEN @ \o Copies(value, r.n - column_length)
                               ELSE @]]

Fill(key, value) ==
    /\ phase = "built"
    /\ LET f == FillOf(data, key, value)
       IN  /\ data' = f.data
           /\ last' = [op |-> "fill", key |-> key, value |-> value, status |-> f.status]
    /\ ret' = <<>>
    /\ UNCHANGED <<raw, phase, dbVars, sqlVars, tcVars>>

(***************************************************************************)
(* DataOperator.rows and _dict_to_rows.                                    *)
(***************************************************************************)
DictToRows(d) ==
    IF d.keys = <<>> THEN [status |-> "IndexError", rows |-> <<>>]
    ELSE LET length == Len(d.col[d.keys[1]])
         IN  IF \E k \in DOMAIN d.col : Len(d.col[k]) < length
             THEN [status |-> "IndexError", rows |-> <<>>]
             ELSE [status |-> "ok",
                   rows |-> [i \in 1..length |-> [k \in DOMAIN d.col |-> d.col[k][i]]]]

Rows ==
    /\ phase = "built"
    /\ LET r == DictToRows(data)
       IN  /\ last' = [op |-> "rows", key |-> "", value |-> "", status |-> r.status]
           /\ ret' = r.rows
    /\ UNCHANGED <<raw, phase, data, dbVars, sqlVars, tcVars>>

(***************************************************************************)
(* DataOperator._py_type_to_sql_type.                                      *)
(***************************************************************************)
\* the python types as get_type names them: the type objects int, float,
\* str, datetime, date, bool and None, their names as strings (quoted
\* here), and two values that are neither
TypeObjects == {"int", "float", "str", "datetime", "date", "bool"}
TypeNames == {"'integer'", "'float'", "'string'", "'datetime'", "'date'", "'bool'"}
PyTypes == TypeObjects \cup TypeNames \cup {"None", "list", "'text'"}

\* a variant without the clause for None
SqlTypeOfNoNoneClause(py_type) ==
    CASE py_type = "'integer'" \/ py_type = "int" -> "Integer"
      [] py_type = "'float'" \/ py_type = "float" -> "Float"
      [] py_type = "'string'" \/ py_type = "str" -> "String"
      [] py_type = "'datetime'" \/ py_type = "datetime" -> "DateTime"
      [] py_type = "'date'" \/ py_type = "date" -> "Date"
      [] py_type = "'bool'" \/ py_type = "bool" -> "Boolean"
      [] OTHER -> "raise"

SqlTypeOf(py_type) ==
    CASE py_type = "'integer'" \/ py_type = "int" -> "Integer"
      [] py_type = "'float'" \/ py_type = "float" -> "Float"
      [] py_type = "'string'" \/ py_type = "str" -> "String"
      [] py_type = "'datetime'" \/ py_type = "datetime" -> "DateTime"
      [] py_type = "'date'" \/ py_type = "date" -> "Date"
      [] py_type = "'bool'" \/ py_type = "bool" -> "Boolean"
      [] py_type = "None" -> "skip"
      [] OTHER -> "raise"

PyTypeToSqlType(types) ==
    IF \E key \in DOMAIN types : SqlTypeOf(types[key]) = "raise"
    THEN [status |-> "Exception", types |-> <<>>]
    ELSE [status |-> "ok",
          types |-> [key \in {k \in DOMAIN types : SqlTypeOf(types[k]) # "skip"} |->
                        <<SqlTypeOf(types[key])>>]]

ToSqlTypes ==
    /\ sql.status = "none"
    /\ sql' = PyTypeToSqlType(py_types)
    /\ UNCHANGED <<py_types, dataVars, dbVars, tcVars>>

(***************************************************************************)
(* typecheck.get_type, which _get_py_type calls for every column, and      *)
(* DataOperator.columns.                                                   *)
(***************************************************************************)
\* the kinds a value may have: the six python types and None
Kinds == TypeObjects \cup {"None"}

NumericKinds == {"bool", "int", "float"}
DateKinds == {"date", "datetime"}

\* the precedence String > DateTime > Date > Float > Integer > Boolean
Rank(k) == CASE k = "str" -> 6 [] k = "datetime" -> 5 [] k = "date" -> 4
             [] k = "float" -> 3 [] k = "int" -> 2 [] k = "bool" -> 1
             [] OTHER -> 0

\* a variant in which the later of two different kinds wins
PromoteLater(A, B) ==
    IF A = B THEN A
    ELSE IF A = "None" THEN B
    ELSE IF B = "None" THEN A
    ELSE B

\* promotion of two kinds: None is the unit, a number and a date have no
\* common kind but String, otherwise the kind of higher precedence
Promote(A, B) ==
    IF A = B THEN A
    ELSE IF A = "None" THEN B
    ELSE IF B = "None" THEN A
    ELSE IF (A \in NumericKinds /\ B \in DateKinds) \/ (A \in DateKinds /\ B \in NumericKinds)
    THEN "str"
    ELSE IF Rank(A) > Rank(B) THEN A ELSE B

\* the fold of the column by promotion, in the column's order
RECURSIVE InferFrom(_, _)
InferFrom(acc, kinds) ==
    IF kinds = <<>> THEN acc
    ELSE InferFrom(Promote(acc, Head(kinds)), Tail(kinds))

Infer(kinds) == InferFrom("None", kinds)

GetTypeOfColumn ==
    /\ inferred.status = "none"
    /\ inferred' = [status |-> "ok", type |-> Infer(column)]
    /\ UNCHANGED <<column, floats, coerced, dataVars, dbVars, sqlVars>>

\* the kind of a cell value of the DataOperator's inputs
KindOf(v) == CASE v = "None" -> "None" [] v = "1" -> "int" [] v = "hi" -> "str"

GetType(values) == Infer([i \in 1..Len(values) |-> KindOf(values[i])])

GetPyType(d) == [k \in DOMAIN d.col |-> GetType(d.col[k])]

ColumnsOf(d) == PyTypeToSqlType(GetPyType(d))

Columns ==
    /\ phase = "built"
    /\ LET c == ColumnsOf(data)
       IN  /\ last' = [op |-> "columns", key |-> "", value |-> "", status |-> c.status]
           /\ ret' = c.types
    /\ UNCHANGED <<raw, phase, data, dbVars, sqlVars, tcVars>>

(***************************************************************************)
(* typecheck.set_type(values, int) on floats, as test_set_type has it.     *)
(***************************************************************************)
\* the floats of the test, 1.1 2.2 3.3 4.6, and 1.0 2.0, in tenths
FloatTenths == {10, 11, 20, 22, 33, 46}

\* 1.1 -> 1, 2.2 -> 2, 3.3 -> 3, 4.6 -> 5
Nearest(t) == (t + 5) \div 10

SetTypeInt(values) ==
    [status |-> "ok", values |-> [i \in 1..Len(values) |-> Nearest(values[i])]]

SetType ==
    /\ coerced.status = "none"
    /\ coerced' = SetTypeInt(floats)
    /\ UNCHANGED <<floats, column, inferred, dataVars, dbVars, sqlVars>>

(***************************************************************************)
(* DBInterface: map_table, clear_mappers, create_tables, drop_table and    *)
(* table_exists, over SQLAlchemy's MetaData, Table, mapper and engine.     *)
(***************************************************************************)
\* the DBInterface objects, each on a database of its own
Insts == {"A", "B"}
TblNames == {"t", "u"}
\* what a table is made of: the column_types given to map_table
ColumnTypes == {"c1", "c2"}

NoTables == [n \in {} |-> "c1"]
Put(f, n, c) == [x \in DOMAIN f \cup {n} |-> IF x = n THEN c ELSE f[x]]
Remove(f, n) == [x \in DOMAIN f \ {n} |-> f[x]]
\* f, and the tables of g that f does not have
Extend(f, g) == [x \in DOMAIN f \cup DOMAIN g |-> IF x \in DOMAIN f THEN f[x] ELSE g[x]]

NoDbCall == [op |-> "none", inst |-> "", name |-> "", status |-> "ok", created |-> 0]

\* the tables property: a fresh MetaData reflected from the engine
Tables(i) == db[i]

TableExists(i, tbl_name) == tbl_name \in DOMAIN Tables(i)

\* a variant whose mapper call does not refuse a class that has a mapper
MapTableOfUnchecked(i, tbl_name, column_types) ==
    IF tbl_name \in DOMAIN metadata[i]
    THEN [status |-> "InvalidRequestError", tables |-> metadata[i], mappers |-> mappers]
    ELSE [status |-> "ok",
          tables |-> Put(metadata[i], tbl_name, column_types),
          mappers |-> mappers \cup {<<i, tbl_name>>}]

\* Table(tbl_name, self.metadata, ...) raises when the MetaData already has
\* the name; mapper(self.Template, t) raises when the class Template, which
\* all DBInterface objects share, has a mapper
MapTableOf(i, tbl_name, column_types) ==
    IF tbl_name \in DOMAIN metadata[i]
    THEN [status |-> "InvalidRequestError", tables |-> metadata[i], mappers |-> mappers]
    ELSE IF mappers # {}
    THEN [status |-> "ArgumentError",
          tables |-> Put(metadata[i], tbl_name, column_types), mappers |-> mappers]
    ELSE [status |-> "ok",
          tables |-> Put(metadata[i], tbl_name, column_types),
          mappers |-> mappers \cup {<<i, tbl_name>>}]

MapTable(i, tbl_name, column_types) ==
    /\ LET m == MapTableOf(i, tbl_name, column_types)
       IN  /\ metadata' = [metadata EXCEPT ![i] = m.tables]
           /\ mappers' = m.mappers
           /\ defined' = [defined EXCEPT ![i] =
                            IF m.status = "ok" THEN @ \cup {tbl_name} ELSE @]
           /\ dlast' = [op |-> "map_table", inst |-> i, name |-> tbl_name,
                        status |-> m.status, created |-> 0]
    /\ UNCHANGED <<db, dataVars, sqlVars, tcVars>>

\* sqlalchemy.orm.clear_mappers() clears every mapper of the process
ClearMappers(i) ==
    /\ mappers' = {}
    /\ dlast' = [op |-> "clear_mappers", inst |-> i, name |-> "",
                 status |-> "ok", created |-> 0]
    /\ UNCHANGED <<metadata, db, defined, dataVars, sqlVars, tcVars>>

\* a variant that also rebuilds the existing tables self.metadata defines
CreateTablesOfReplace(i) == Extend(metadata[i], db[i])

\* metadata.create_all(engine) creates the tables the database lacks
CreateTablesOf(i) == Extend(db[i], metadata[i])

CreateTables(i) ==
    /\ db' = [db EXCEPT ![i] = CreateTablesOf(i)]
    /\ dlast' = [op |-> "create_tables", inst |-> i, name |-> "", status |-> "ok",
                 created |-> Cardinality(DOMAIN CreateTablesOf(i) \ DOMAIN db[i])]
    /\ UNCHANGED <<metadata, mappers, defined, dataVars, sqlVars, tcVars>>

\* a variant that drops every table of the reflected metadata
DropTableOfAll(i, drop_tbl) ==
    LET reflected == Extend(metadata[i], db[i])
    IN  IF drop_tbl \notin DOMAIN reflected
        THEN [status |-> "KeyError", tables |-> reflected, db |-> db[i]]
        ELSE IF drop_tbl \notin DOMAIN db[i]
        THEN [status |-> "OperationalError", tables |-> reflected, db |-> db[i]]
        ELSE [status |-> "ok", tables |-> NoTables, db |-> NoTables]

\* reflect adds the database's tables to self.metadata; the lookup raises
\* on an unknown name, DROP TABLE on a table the database lacks; after the
\* drop self.metadata is a new, empty MetaData
DropTableOf(i, drop_tbl) ==
    LET reflected == Extend(metadata[i], db[i])
    IN  IF drop_tbl \notin DOMAIN reflected
        THEN [status |-> "KeyError", tables |-> reflected, db |-> db[i]]
        ELSE IF drop_tbl \notin DOMAIN db[i]
        THEN [status |-> "OperationalError", tables |-> reflected, db |-> db[i]]
        ELSE [status |-> "ok", tables |-> NoTables, db |-> Remove(db[i], drop_tbl)]

DropTable(i, drop_tbl) ==
    /\ LET r == DropTableOf(i, drop_tbl)
       IN  /\ metadata' = [metadata EXCEPT ![i] = r.tables]
           /\ db' = [db EXCEPT ![i] = r.db]
           /\ defined' = [defined EXCEPT ![i] =
                            IF r.status = "ok" THEN @ \ {drop_tbl} ELSE @]
           /\ dlast' = [op |-> "drop_table", inst |-> i, name |-> drop_tbl,
                        status |-> r.status, created |-> 0]
    /\ UNCHANGED <<mappers, dataVars, sqlVars, tcVars>>

(***************************************************************************)
(* Specification of one DataOperator.                                      *)
(***************************************************************************)
IdleData == /\ raw = OtherInput
            /\ phase = "idle"
            /\ data = EmptyData
            /\ last = NoCall
            /\ ret = <<>>

IdleDB == /\ metadata = [i \in Insts |-> NoTables]
          /\ db = [i \in Insts |-> NoTables]
          /\ mappers = {}
          /\ defined = [i \in Insts |-> {}]
          /\ dlast = NoDbCall

IdleSql == /\ py_types = <<>>
           /\ sql = [status |-> "idle", types |-> <<>>]

IdleInfer == /\ column = <<>>
             /\ inferred = [status |-> "idle", type |-> "None"]

IdleSetType == /\ floats = <<>>
               /\ coerced = [status |-> "idle", values |-> <<>>]

Init == /\ raw \in Inputs
        /\ phase = "new"
        /\ data = EmptyData
        /\ last = NoCall
        /\ ret = <<>>
        /\ IdleDB
        /\ IdleSql
        /\ IdleInfer
        /\ IdleSetType

Next == \/ Construct
        \/ NumRows
        \/ Rows
        \/ Columns
        \/ \E key \in ColNames, value \in Values : Fill(key, value)

Spec == Init /\ [][Next]_vars

(***************************************************************************)
(* Specification of one DBInterface: the object A alone makes calls.       *)
(***************************************************************************)
InitDB == IdleData /\ IdleDB /\ IdleSql /\ IdleInfer /\ IdleSetType

NextDB == \/ \E n \in TblNames, c \in ColumnTypes : MapTable("A", n, c)
          \/ ClearMappers("A")
          \/ CreateTables("A")
          \/ \E n \in TblNames : DropTable("A", n)

SpecDB == InitDB /\ [][NextDB]_vars

(***************************************************************************)
(* Specification of two DBInterface objects in one process, their calls    *)
(* interleaved; every table has the same column types.                     *)
(***************************************************************************)
NextDB2 == \/ \E i \in Insts, n \in TblNames : MapTable(i, n, "c1")
           \/ \E i \in Insts : ClearMappers(i)
           \/ \E i \in Insts : CreateTables(i)
           \/ \E i \in Insts, n \in TblNames : DropTable(i, n)

SpecDB2 == InitDB /\ [][NextDB2]_vars

(***************************************************************************)
(* Specification of the column builder on every dict of python types.      *)
(***************************************************************************)
InitSql == /\ IdleData
           /\ IdleDB
           /\ py_types \in UNION {[K -> PyTypes] : K \in SUBSET ColNames}
           /\ sql = [status |-> "none", types |-> <<>>]
           /\ IdleInfer
           /\ IdleSetType

NextSql == ToSqlTypes

SpecSql == InitSql /\ [][NextSql]_vars

(***************************************************************************)
(* Specification of get_type on every column of kinds.                     *)
(***************************************************************************)
InitInfer == /\ IdleData
             /\ IdleDB
             /\ IdleSql
             /\ IdleSetType
             /\ column \in SeqsUpTo(Kinds, MaxInfer)
             /\ inferred = [status |-> "none", type |-> "None"]

NextInfer == GetTypeOfColumn

SpecInfer == InitInfer /\ [][NextInfer]_vars

(***************************************************************************)
(* Specification of set_type(values, int) on every list of floats.         *)
(***************************************************************************)
InitSetType == /\ IdleData
               /\ IdleDB
               /\ IdleSql
               /\ IdleInfer
               /\ floats \in SeqsUpTo(FloatTenths, MaxFloats)
               /\ coerced = [status |-> "none", values |-> <<>>]

NextSetType == SetType

SpecSetType == InitSetType /\ [][NextSetType]_vars


(***************************************************************************)
(* Properties of the DataOperator.                                         *)
(***************************************************************************)
\* the input is a list of rows and some row after the first has other keys
Mismatched(x) == /\ x.kind = "rows"
                 /\ \E j \in 2..Len(x.rows) : DOMAIN x.rows[j] # DOMAIN x.rows[1]

\* the input is a list of rows that all have the same keys
Uniform(x) == /\ x.kind = "rows"
              /\ \A i, j \in 1..Len(x.rows) : DOMAIN x.rows[i] = DOMAIN x.rows[j]

\* the column map is the pivot of the rows: column[k][i] = rows[i][k]
PivotOf(d, rows) ==
    /\ DOMAIN d.col = DOMAIN rows[1]
    /\ \A k \in DOMAIN d.col :
          /\ Len(d.col[k]) = Len(rows)
          /\ \A i \in 1..Len(rows) : d.col[k][i] = rows[i][k]

\* C1: constructing a DataOperator from a list of rows in which some row
\* after the first has a key set different from the first row's fails: no
\* column map is produced and no row is skipped.
C1_MismatchedRowsFail == (phase # "new" /\ Mismatched(raw)) => phase = "failed"

\* C2 (as stated): for every list of N rows that share one key set K the
\* constructor yields the column map with keys K and column[k][i] =
\* input[i][k], and rows returns the N input records.
C2_PivotEveryUniformInput ==
    (last.op = "init" /\ Uniform(raw)) =>
        /\ phase = "built"
        /\ PivotOf(data, raw.rows)
        /\ DictToRows(data) = [status |-> "ok", rows |-> raw.rows]

\* C2 (amended): for every list of N >= 1 rows that share one non-empty key
\* set K the constructor yields the column map with keys K and column[k][i]
\* = input[i][k] in row order, and rows, called on the result, returns the
\* N input records.
C2_PivotRoundTrip ==
    /\ [](   (last.op = "init" /\ Uniform(raw) /\ Len(raw.rows) >= 1
                               /\ DOMAIN raw.rows[1] # {})
          => (phase = "built" /\ PivotOf(data, raw.rows)))
    /\ [][   (Rows /\ last.op = "init" /\ Uniform(raw) /\ Len(raw.rows) >= 1
                   /\ DOMAIN raw.rows[1] # {})
          => (last'.status = "ok" /\ ret' = raw.rows)]_vars

\* rows returned two different two-column records of a uniform input
C2_Witness == /\ last.op = "rows"
              /\ last.status = "ok"
              /\ Uniform(raw)
              /\ Len(raw.rows) = 2
              /\ DOMAIN raw.rows[1] = ColNames
              /\ raw.rows[1] # raw.rows[2]
              /\ ret = raw.rows

\* the longest column of the dataset
MaxColumnLength(d) == CHOOSE m \in {Len(d.col[k]) : k \in DOMAIN d.col} :
                         \A k \in DOMAIN d.col : Len(d.col[k]) <= m

SomeColumnNonEmpty(d) == \E k \in DOMAIN d.col : d.col[k] # <<>>

\* C3: on a dataset with a non-empty column, fill(key, value) on a column
\* of the dataset leaves that column as it was followed by (M - old length)
\* copies of value, M the longest column before the call: its length is M,
\* and every other column is unchanged.
C3_FillPadsToMax ==
    [][\A key \in ColNames, value \in Values :
         (Fill(key, value) /\ key \in DOMAIN data.col /\ SomeColumnNonEmpty(data))
         => LET M == MaxColumnLength(data)
            IN  /\ last'.status = "ok"
                /\ data'.col[key] = data.col[key] \o Copies(value, M - Len(data.col[key]))
                /\ Len(data'.col[key]) = M
                /\ DOMAIN data'.col = DOMAIN data.col
                /\ \A k \in DOMAIN data.col \ {key} : data'.col[k] = data.col[k]
                /\ data'.keys = data.keys]_vars

\* fill has made a column of the input two values longer
C3_Witness == /\ last.op = "fill"
              /\ last.status = "ok"
              /\ raw.kind = "cols"
              /\ last.key \in DOMAIN raw.col
              /\ Len(raw.col[last.key]) = 0
              /\ data.col[last.key] = <<last.value, last.value>>
              /\ \E k \in DOMAIN data.col : k # last.key /\ Len(data.col[k]) = 2

\* C4: a fill(col, v) directly after a fill(col, v) leaves every column as
\* the first call left it, and so does a fill on a column that already has
\* the maximum length.
C4_FillIdempotent ==
    [][\A key \in ColNames, value \in Values :
         /\ (Fill(key, value) /\ last.op = "fill" /\ last.key = key /\ last.value = value)
               => data' = data
         /\ (Fill(key, value) /\ key \in DOMAIN data.col
                              /\ Len(data.col[key]) = MaxColumnLength(data))
               => data' = data]_vars

\* a fill that padded its column is the last call, so a second one may follow
C4_Witness == /\ last.op = "fill"
              /\ last.status = "ok"
              /\ raw.kind = "cols"
              /\ last.key \in DOMAIN raw.col
              /\ Len(raw.col[last.key]) < Len(data.col[last.key])
              /\ Len(data.col[last.key]) = MaxColumnLength(data)

AllColumnsEmpty(d) == \A k \in DOMAIN d.col : d.col[k] = <<>>

C6_MapAfterClearSucceeds ==
    [][\A i \in Insts, n \in TblNames, c \in ColumnTypes :
         (MapTable(i, n, c) /\ dlast.op = "clear_mappers") => dlast'.status = "ok"]_vars

\* C6 (amended): at most one table is bound to Template at any time; map
\* succeeds only when no table is bound; a map while one is bound fails and
\* leaves that binding in place; clear leaves no binding, and a map with no
\* binding in place, of a table name that self.metadata does not hold yet,
\* succeeds and binds that table.
C6_OneBindingAtATime ==
    /\ [](Cardinality(mappers) <= 1)
    /\ [][\A i \in Insts, n \in TblNames, c \in ColumnTypes :
            /\ MapTable(i, n, c) =>
                 /\ dlast'.status = "ok" => (mappers = {} /\ mappers' = {<<i, n>>})
                 /\ mappers # {} =>
                      /\ dlast'.status # "ok"
                      /\ mappers' = mappers
                      /\ n \notin DOMAIN metadata[i] => dlast'.status = "ArgumentError"
                 /\ (mappers = {} /\ n \notin DOMAIN metadata[i]) => dlast'.status = "ok"
            /\ ClearMappers(i) => mappers' = {}]_vars

\* a map failed on the binding of another table, which is still in place
C6_Witness == /\ dlast.op = "map_table"
              /\ dlast.status = "ArgumentError"
              /\ Cardinality(mappers) = 1
              /\ <<dlast.inst, dlast.name>> \notin mappers

\* C7: two DBInterface objects have bindings of their own: a binding made
\* by one never makes a map by the other fail, and a clear by one never
\* releases the binding of the other.
C7_InstancesIndependent ==
    [][\A i \in Insts, n \in TblNames, c \in ColumnTypes :
         /\ (MapTable(i, n, c) /\ n \notin DOMAIN metadata[i]
                               /\ \A m \in mappers : m[1] # i)
               => dlast'.status = "ok"
         /\ ClearMappers(i) =>
               {m \in mappers' : m[1] # i} = {m \in mappers : m[1] # i}]_vars

\* C8: once create_tables has returned, every table defined by a successful
\* map_table and not itself dropped since exists in the database.
C8_CreateAllPersistsDefined ==
    dlast.op = "create_tables" =>
        \A n \in defined[dlast.inst] : TableExists(dlast.inst, n)

StorageType(kind) ==
    CASE kind \in {"int", "'integer'"} -> "Integer"
      [] kind \in {"float", "'float'"} -> "Float"
      [] kind \in {"str", "'string'"} -> "String"
      [] kind \in {"datetime", "'datetime'"} -> "DateTime"
      [] kind \in {"date", "'date'"} -> "Date"
      [] kind \in {"bool", "'bool'"} -> "Boolean"

C12_RowsOnlyOfEqualColumns ==
    (last.op = "rows" /\ last.status = "ok") =>
        /\ \A k1, k2 \in DOMAIN data.col : Len(data.col[k1]) = Len(data.col[k2])
        /\ \A k \in DOMAIN data.col :
              /\ Len(ret) = Len(data.col[k])
              /\ \A i \in 1..Len(ret) : DOMAIN ret[i] = DOMAIN data.col
                                        /\ ret[i][k] = data.col[k][i]

\* C15: drop_table of a table of the database returns with that table
\* gone and every other table, and what it is made of, as it was.
C15_DropRemovesOneTable ==
    [][\A i \in Insts, n \in TblNames :
         (DropTable(i, n) /\ TableExists(i, n))
         => /\ dlast'.status = "ok"
            /\ ~TableExists(i, n)'
            /\ \A other \in TblNames \ {n} : TableExists(i, other)' = TableExists(i, other)
            /\ DOMAIN db'[i] = DOMAIN db[i] \ {n}
            /\ \A other \in DOMAIN db'[i] : db'[i][other] = db[i][other]
            /\ \A j \in Insts \ {i} : db'[j] = db[j]]_vars

\* a table was dropped and the other table of the database is still there
C15_Witness == /\ dlast.op = "drop_table"
               /\ dlast.status = "ok"
               /\ DOMAIN db[dlast.inst] = TblNames \ {dlast.name}

(***************************************************************************)
(* Properties of columns against rows, of set_type and of get_type.        *)
(***************************************************************************)
\* C11: the keys of every record that rows returns are the column names
\* that columns returns: a column of None values only is in neither.
C11_RowKeysAreBuiltColumns ==
    (last.op = "rows" /\ last.status = "ok") =>
        \A i \in 1..Len(ret) : DOMAIN ret[i] = DOMAIN ColumnsOf(data).types

\* C13: set_type(values, int) fails on the first float with a fractional
\* part, and turns floats without one into the equal integers.
C13_StrictIntegerCoercion ==
    coerced.status \notin {"none", "idle"} =>
        IF \E i \in 1..Len(floats) : floats[i] % 10 # 0
        THEN coerced.status = "CoercionError"
        ELSE /\ coerced.status = "ok"
             /\ Len(coerced.values) = Len(floats)
             /\ \A i \in 1..Len(floats) : coerced.values[i] * 10 = floats[i]

\* the kind a set of kinds other than None promotes to
KindJoin(S) ==
    IF S \subseteq NumericKinds \/ S \subseteq DateKinds
    THEN CHOOSE k \in S : \A j \in S : Rank(j) <= Rank(k)
    ELSE "str"

\* C14: get_type returns the same kind for every permutation of a column;
\* None values contribute nothing, a column without any other value gives
\* None, and the result is the promotion of the kinds that are not None.
C14_InferOrderIndependent ==
    inferred.status = "ok" =>
        LET NonNull == {column[i] : i \in 1..Len(column)} \ {"None"}
        IN  /\ \A p \in Orders(1..Len(column)) :
                  Infer([i \in 1..Len(column) |-> column[p[i]]]) = inferred.type
            /\ NonNull = {} => inferred.type = "None"
            /\ NonNull # {} => inferred.type = KindJoin(NonNull)

\* get_type gave int for [None, int, None]
C14_Witness == /\ inferred.status = "ok"
               /\ column = <<"None", "int", "None">>
               /\ inferred.type = "int"

=============================================================================
